---- MODULE Spec2Model ----
(***************************************************************************)
(* Model of cmd/sqlitedb/sqlitedb.go: reconciliation of Grafana dashboard  *)
(* rows of an SQLite database with dashboard JSON files (export, import by *)
(* uid, import by title) and of the tag reconciler updateTags.             *)
(*                                                                         *)
(* Strings whose characters matter (titles, slugs, tags, file paths) are   *)
(* sequences of one-character strings; uids are opaque strings.            *)
(***************************************************************************)
EXTENDS Integers, Sequences, FiniteSets, TLC

(***************************************************************************)
(* Bounds of the model.                                                    *)
(***************************************************************************)
\* longest JSON tag list drawn for a direct call of updateTags
MaxTagLen == 2
\* largest number of items on the command line of one import run
MaxJsons == 2
\* the most writes a running Grafana makes to its database during the script
MaxWrites == 2

(***************************************************************************)
(* Strings.                                                                *)
(***************************************************************************)
\* byte value of a character: Go compares strings bytewise (sort.Strings),
\* and so does SQLite's default BINARY collation (order by term asc)
Code(c) ==
  CASE c = " " -> 32
    [] c = "," -> 44
    [] c = "-" -> 45
    [] c = "A" -> 65
    [] c = "a" -> 97
    [] c = "b" -> 98
    [] OTHER -> 120

\* s < t in bytewise lexicographic order
StrLess(s, t) ==
  \E k \in 0..Len(s) :
    /\ k <= Len(t)
    /\ \A n \in 1..k : s[n] = t[n]
    /\ \/ k = Len(s) /\ k < Len(t)
       \/ k < Len(s) /\ k < Len(t) /\ Code(s[k + 1]) < Code(t[k + 1])

Range(f) == {f[x] : x \in DOMAIN f}

\* the least string of a non-empty set
MinStr(S) == CHOOSE s \in S : \A t \in S : t = s \/ StrLess(s, t)

RECURSIVE InsertSorted(_, _)
InsertSorted(x, seq) ==
  IF seq = <<>> THEN <<x>>
  ELSE IF StrLess(Head(seq), x) \/ Head(seq) = x
       THEN <<Head(seq)>> \o InsertSorted(x, Tail(seq))
       ELSE <<x>> \o seq

\* SortStrings with a fault: the list is left in the order of the file
SortStrings_Unsorted(seq) == seq

\* sort.Strings(jsonTags): ascending, repeated elements kept
RECURSIVE SortStrings(_)
SortStrings(seq) ==
  IF seq = <<>> THEN <<>>
  ELSE InsertSorted(Head(seq), SortStrings(Tail(seq)))

\* the rows of "select term ... order by term asc" for a set of tag rows
RECURSIVE OrderByTerm(_)
OrderByTerm(S) ==
  IF S = {} THEN <<>>
  ELSE LET m == MinStr(S) IN <<m>> \o OrderByTerm(S \ {m})

\* strings.Join(seq, ","): the elements concatenated, "," between them
RECURSIVE JoinComma(_)
JoinComma(seq) ==
  IF seq = <<>> THEN <<>>
  ELSE IF Len(seq) = 1 THEN seq[1]
  ELSE seq[1] \o <<",">> \o JoinComma(Tail(seq))

(***************************************************************************)
(* updateTags(db, ctx, did, jsonTags, info) on the tag rows of dashboard   *)
(* did: the value returned, the inserts and deletes executed, the rows     *)
(* afterwards, and jsonTags as sort.Strings leaves it.                     *)
(***************************************************************************)
updateTags(rows, jsonTags) ==
  LET dbTags == OrderByTerm(rows)
      sorted == SortStrings(jsonTags)
      sJSONTags == JoinComma(sorted)
      sDBTags == JoinComma(dbTags)
      jsonMapT == Range(sorted)
      dbMapT == Range(dbTags)
      allMap == jsonMapT \cup dbMapT
      ins == {t \in allMap : t \in jsonMapT /\ t \notin dbMapT}
      del == {t \in allMap : t \notin jsonMapT /\ t \in dbMapT}
  IN IF sJSONTags = sDBTags
     THEN [changed |-> FALSE, ins |-> {}, del |-> {}, rows |-> rows,
           sorted |-> sorted]
     ELSE [changed |-> TRUE, ins |-> ins, del |-> del,
           rows |-> (rows \cup ins) \ del, sorted |-> sorted]

(***************************************************************************)
(* JSON documents and the helpers of package lib.                          *)
(*                                                                         *)
(* The bytes of a file or of a data column are a record: the three fields  *)
(* the program reads (each absent, <<>>, or present, <<value>>), a number  *)
(* standing for all the other fields of the document, and the layout of    *)
(* the text ("pretty", "compact", or "garbage" for bytes that are no JSON).*)
(***************************************************************************)
Doc(title, uid, tags, body, layout) ==
  [title |-> title, uid |-> uid, tags |-> tags, body |-> body, layout |-> layout]

WellFormed(bytes) == bytes.layout # "garbage"

\* lib.PrettyPrintJSON: the canonical text of a well-formed document
PrettyPrintJSON(bytes) == [bytes EXCEPT !.layout = "pretty"]

\* the zero value of type dashboard
ZeroDash == [Title |-> <<>>, UID |-> "", Tags |-> <<>>]

\* json.Unmarshal(bytes, &d): a field present in the document is set, a
\* field the document lacks keeps the value the variable already has
Unmarshal(bytes, d) ==
  [Title |-> IF bytes.title = <<>> THEN d.Title ELSE bytes.title[1],
   UID   |-> IF bytes.uid = <<>> THEN d.UID ELSE bytes.uid[1],
   Tags  |-> IF bytes.tags = <<>> THEN d.Tags ELSE bytes.tags[1]]

IsAlnum(c) == c \in {"A", "a", "b", "n", "x"}
ToLower(c) == IF c = "A" THEN "a" ELSE c

RECURSIVE Hyphenate(_)
Hyphenate(s) ==
  IF s = <<>> THEN <<>>
  ELSE LET h == IF IsAlnum(Head(s)) THEN ToLower(Head(s)) ELSE "-"
           r == Hyphenate(Tail(s))
       IN IF h = "-" /\ r # <<>> /\ Head(r) = "-" THEN r ELSE <<h>> \o r

RECURSIVE TrimHyphens(_)
TrimHyphens(s) ==
  IF s = <<>> THEN <<>>
  ELSE IF Head(s) = "-" THEN TrimHyphens(Tail(s))
  ELSE IF s[Len(s)] = "-" THEN TrimHyphens(SubSeq(s, 1, Len(s) - 1))
  ELSE s

\* lib.Slugify: lower case, every run of other characters one hyphen,
\* no hyphen at either end
Slugify(title) == TrimHyphens(Hyphenate(title))

(***************************************************************************)
(* The inputs of a run: the database and the files on disk.                *)
(***************************************************************************)
TagA == <<"a">>
TagB == <<"b">>
TagUpperA == <<"A">>
TagAB == <<"a", ",", "b">>
TagUniverse == {TagA, TagB, TagUpperA, TagAB}

Title1 == <<"A", " ", "b">>
Title2 == <<"b">>
Title3 == <<"a">>
CustomSlug == <<"x">>
NewSlug == <<"n">>

Data1 == Doc(<<Title1>>, <<"u1">>, << <<TagA>> >>, 0, "pretty")
Data2 == Doc(<<Title2>>, <<"u2">>, << <<>> >>, 0, "pretty")
Garbage == Doc(<<>>, <<>>, <<>>, 0, "garbage")

Row(n, title, sl, bytes) == [id |-> n, title |-> title, slug |-> sl, data |-> bytes]

Row1 == Row(1, Title1, Slugify(Title1), Data1)
Row2 == Row(2, Title2, Slugify(Title2), Data2)

Ids == {1, 2}

\* the databases a run can start from: one as a Grafana that keeps its rows
\* in step writes it, and six each with one departure from it
Databases ==
  { [dashboard |-> (1 :> Row1) @@ (2 :> Row2),
     dashboard_tag |-> (1 :> {TagA}) @@ (2 :> {})],
    \* a slug that is not the slug of the title
    [dashboard |-> (1 :> [Row1 EXCEPT !.slug = CustomSlug]) @@ (2 :> Row2),
     dashboard_tag |-> (1 :> {TagA}) @@ (2 :> {})],
    \* tag rows that are not the tags of the data column
    [dashboard |-> (1 :> Row1) @@ (2 :> Row2),
     dashboard_tag |-> (1 :> {TagA, TagB}) @@ (2 :> {})],
    \* a data column that is not in canonical form
    [dashboard |-> (1 :> [Row1 EXCEPT !.data.layout = "compact"]) @@ (2 :> Row2),
     dashboard_tag |-> (1 :> {TagA}) @@ (2 :> {})],
    \* a data column without uid
    [dashboard |-> (1 :> Row1) @@ (2 :> [Row2 EXCEPT !.data.uid = <<>>]),
     dashboard_tag |-> (1 :> {TagA}) @@ (2 :> {})],
    \* a title column that is not the title of the data column
    [dashboard |-> (1 :> Row1) @@ (2 :> [Row2 EXCEPT !.title = Title3]),
     dashboard_tag |-> (1 :> {TagA}) @@ (2 :> {})],
    \* two dashboards with one title, and so with one slug
    [dashboard |-> (1 :> Row1)
                   @@ (2 :> [Row2 EXCEPT !.title = Title1, !.data.title = <<Title1>>,
                                         !.slug = Slugify(Title1)]),
     dashboard_tag |-> (1 :> {TagA}) @@ (2 :> {})] }

\* the JSON files on disk, by path
InputFiles ==
  (<<"f1">>  :> Data1) @@
  (<<"f1c">> :> [Data1 EXCEPT !.layout = "compact"]) @@
  (<<"f1b">> :> [Data1 EXCEPT !.body = 1]) @@
  (<<"f1t">> :> [Data1 EXCEPT !.tags = << <<TagB, TagA>> >>]) @@
  (<<"f1d">> :> [Data1 EXCEPT !.tags = << <<TagA, TagA>> >>]) @@
  (<<"f1k">> :> [Data1 EXCEPT !.tags = << <<TagAB>> >>]) @@
  (<<"f2">>  :> Data2) @@
  (<<"fx">>  :> [Data1 EXCEPT !.title = <<Title2>>]) @@
  (<<"fu">>  :> [Data1 EXCEPT !.uid = <<"u3">>]) @@
  (<<"fnt">> :> [Data1 EXCEPT !.title = <<>>, !.body = 1]) @@
  (<<"fnu">> :> [Data1 EXCEPT !.uid = <<>>]) @@
  (<<"fng">> :> [Data2 EXCEPT !.tags = <<>>, !.body = 1]) @@
  (<<"bad">> :> Garbage)

\* the files given with an old title and a new slug, "fn.json;old title;new slug"
OverrideFiles == {<<"f1b">>, <<"fx">>, <<"fnt">>, <<"f2">>}

\* one command line item after strings.Split(jdata, ";")
UidItems == {<<fn>> : fn \in DOMAIN InputFiles}
TitleItems ==
  UidItems
    \cup {<<fn, old, NewSlug>> : fn \in OverrideFiles, old \in {Title1, Title2}}
    \cup {<<<<"f1">>, Title1>>}

\* the non-empty lists of at most MaxJsons items
Lists(S) == UNION {[1..n -> S] : n \in 1..MaxJsons}

(***************************************************************************)
(* State.                                                                  *)
(***************************************************************************)
VARIABLES
  mode,       \* what main runs: "uid", "title", "export" ("tags": a bare call of updateTags)
  jsons,      \* os.Args[2:], each item split at ";"
  db,         \* table dashboard: id -> [id, title, slug, data]
  tagTbl,     \* table dashboard_tag: dashboard_id -> set of terms
  fs,         \* the JSON files on disk: path -> bytes
  backups,    \* the contents of the files dbFile.<UnixNano> written, in order
  pc,         \* the statement the run is at
  err,        \* the fatal error that ended the run, "" if none
  i,          \* index of the item (of the row, in exportJsons) being processed
  backedUp,   \* backedUp
  contents,   \* contents: the bytes of dbFile read at the start of the run
  dbMap,      \* importJsonsByUID: uid -> dashboardData of the database
  jsonMap,    \* importJsonsByUID: uid -> dashboardData of the files
  todo,       \* importJsonsByUID: keys of jsonMap the range loop has yet to visit
  cur,        \* importJsonsByUID: key of the current iteration
  updated,    \* updated: the result of updateTags for the current item
  nImp,       \* nImp
  dash,       \* importJsonsByTitle: dash
  dash2,      \* importJsonsByTitle: dash2
  data,       \* importJsonsByTitle: data
  id,         \* importJsonsByTitle: id
  slug,       \* importJsonsByTitle: slug
  db0,        \* history: the database when the run started
  nRowUpd,    \* history: number of "update dashboard" statements executed
  nTagOps,    \* history: number of tag inserts and deletes executed
  accepted,   \* history: paths of the files the run parsed without a fatal error
  modBy,      \* history: paths of the files on whose behalf a row or tag was written
  roundTrip,  \* history: the run imports the files an export has just written
  tgJson,     \* a bare call of updateTags: jsonTags
  tgRows,     \* a bare call of updateTags: the tag rows of the dashboard
  tgLog,      \* a bare call of updateTags: the results of the calls made so far
  rowWas,     \* history: the row the last "update dashboard" replaced
  rowBy,      \* history: the paths of the items that had a row updated
  wpc,        \* the import wrapper script: the line it is at
  wcode,      \* the import wrapper script: its exit status
  service,    \* the Grafana service: "running" or "stopped"
  live,       \* /var/lib/grafana.$GRAFANA/grafana.db
  local,      \* ./grafana.$GRAFANA.db, the copy sqlitedb works on
  wenv,       \* the import wrapper script: whether $GRAFANA and $1 are set
  wlog        \* history: the state of the service at each step of the script

vars == <<mode, jsons, db, tagTbl, fs, backups, pc, err, i, backedUp, contents,
          dbMap, jsonMap, todo, cur, updated, nImp, dash, dash2, data, id, slug,
          db0, nRowUpd, nTagOps, accepted, modBy, roundTrip, tgJson, tgRows, tgLog,
          rowWas, rowBy, wpc, wcode, service, live, local, wenv, wlog>>

input == <<mode, jsons>>
tagsVars == <<tgJson, tgRows, tgLog>>
uidVars == <<dbMap, jsonMap, todo, cur>>
titleVars == <<dash, dash2, data, id, slug>>
wrapVars == <<wpc, wcode, service, live, local, wenv, wlog>>

\* the database file as ReadFile(ctx, dbFile) returns it
DbFile == [dashboard |-> db, dashboard_tag |-> tagTbl]

Empty == [x \in {} |-> {}]

\* the variables of a run before its first statement
Fresh ==
  /\ pc = "start" /\ err = "" /\ i = 1
  /\ backedUp = FALSE /\ contents = <<>> /\ backups = <<>>
  /\ dbMap = Empty /\ jsonMap = Empty /\ todo = {} /\ cur = ""
  /\ updated = FALSE /\ nImp = 0
  /\ dash = ZeroDash /\ dash2 = ZeroDash
  /\ data = Garbage /\ id = 0 /\ slug = <<>>
  /\ nRowUpd = 0 /\ nTagOps = 0 /\ accepted = {} /\ modBy = {}
  /\ rowWas = Row(0, <<>>, <<>>, Garbage) /\ rowBy = {}

\* a database file as the wrapper script sees it: the number of writes the
\* service has made to it, and whether sqlitedb has imported into it
DbCopy(w, imp) == [writes |-> w, imported |-> imp]

\* the wrapper script is not part of the run
NoWrapper ==
  /\ wpc = "off" /\ wcode = 0 /\ service = "stopped"
  /\ live = DbCopy(0, FALSE) /\ local = DbCopy(0, FALSE)
  /\ wenv = <<FALSE, FALSE>> /\ wlog = <<>>

\* main: a database, a mode (GHA2DB_UIDMODE, or no items at all) and the items
Init ==
  /\ mode \in {"uid", "title", "export"}
  /\ jsons \in IF mode = "uid" THEN Lists(UidItems)
               ELSE IF mode = "title" THEN Lists(TitleItems)
               ELSE {<<>>}
  /\ \E d \in Databases : db = d.dashboard /\ tagTbl = d.dashboard_tag
  /\ fs = InputFiles
  /\ db0 = [dashboard |-> db, dashboard_tag |-> tagTbl]
  /\ roundTrip = FALSE
  /\ Fresh
  /\ NoWrapper
  /\ tgJson = <<>> /\ tgRows = {} /\ tgLog = <<>>

\* lib.Fatalf / lib.FatalOnError: the process ends there
Fatal(e) == pc' = "fatal" /\ err' = e

\* the write of dbFile.<UnixNano> by backupFunc
backupFunc == backups' = Append(backups, contents)

\* EnsureBackup with a fault: the flag is never consulted
EnsureBackup_Always == backupFunc /\ backedUp' = TRUE

\* "if !backedUp { backupFunc(); backedUp = true }"
EnsureBackup ==
  IF backedUp THEN UNCHANGED <<backups, backedUp>>
  ELSE backupFunc /\ backedUp' = TRUE

(***************************************************************************)
(* importJsonsByUID.                                                       *)
(***************************************************************************)
\* "contents, err := lib.ReadFile(ctx, dbFile)"
ReadContents == contents' = DbFile

UIDStart ==
  /\ mode = "uid" /\ pc = "start"
  /\ ReadContents
  /\ pc' = "loaddb"
  /\ UNCHANGED <<wrapVars, input, db, tagTbl, fs, backups, err, i, backedUp, uidVars,
                 updated, nImp, titleVars, db0, nRowUpd, rowWas, rowBy, nTagOps, accepted,
                 modBy, roundTrip, tagsVars>>

\* DbDash with a fault: the data column is kept as stored, not pretty-printed
DbDash_RawData(r) ==
  [dash |-> Unmarshal(r.data, ZeroDash), id |-> r.id, title |-> r.title,
   slug |-> r.slug, data |-> r.data,
   fn |-> <<"*">> \o r.slug \o <<".json*">>]

\* the dashboardData the first loop builds of row r
DbDash(r) ==
  [dash |-> Unmarshal(r.data, ZeroDash), id |-> r.id, title |-> r.title,
   slug |-> r.slug, data |-> PrettyPrintJSON(r.data),
   fn |-> <<"*">> \o r.slug \o <<".json*">>]

\* the rows of "select ... from dashboard" that end the run: data that does
\* not parse, or a title column that is not the title of the data
BadRows(d) ==
  {k \in DOMAIN d : ~WellFormed(d[k].data)
                    \/ d[k].title # Unmarshal(d[k].data, ZeroDash).Title}

\* dbMap after the loop over the rows, scanned in the order of their ids:
\* of two rows with one uid the later one stays
LoadDbMap(d) ==
  LET uids == {Unmarshal(d[k].data, ZeroDash).UID : k \in DOMAIN d}
      last(u) == CHOOSE k \in DOMAIN d :
                   /\ Unmarshal(d[k].data, ZeroDash).UID = u
                   /\ \A m \in DOMAIN d :
                        Unmarshal(d[m].data, ZeroDash).UID = u => m <= k
  IN [u \in uids |-> DbDash(d[last(u)])]

UIDLoadDb ==
  /\ mode = "uid" /\ pc = "loaddb"
  /\ IF BadRows(db) # {}
     THEN LET k == CHOOSE k \in BadRows(db) : \A m \in BadRows(db) : k <= m
          IN /\ Fatal(IF WellFormed(db[k].data) THEN "inconsistent" ELSE "parse")
             /\ UNCHANGED dbMap
     ELSE /\ dbMap' = LoadDbMap(db)
          /\ pc' = "parse" /\ UNCHANGED err
  /\ UNCHANGED <<wrapVars, input, db, tagTbl, fs, backups, i, backedUp, contents, jsonMap,
                 todo, cur, updated, nImp, titleVars, db0, nRowUpd, rowWas, rowBy, nTagOps,
                 accepted, modBy, roundTrip, tagsVars>>

\* UidKnown with a fault: a uid the database lacks is let through
UidKnown_Any(uid) == TRUE

\* "dbDash, ok := dbMap[dd.dash.UID]"
UidKnown(uid) == uid \in DOMAIN dbMap

\* UidSeen with a fault: a second file with the same uid replaces the first
UidSeen_Never(uid) == FALSE

\* "jsonDash, ok := jsonMap[dd.dash.UID]"
UidSeen(uid) == uid \in DOMAIN jsonMap

\* the dashboardData the second loop builds of file j
JsonDash(j, bytes, d) ==
  [dash |-> d, id |-> IF d.UID \in DOMAIN dbMap THEN dbMap[d.UID].id ELSE 0,
   title |-> d.Title, slug |-> Slugify(d.Title),
   data |-> PrettyPrintJSON(bytes), fn |-> j]

\* one iteration of "for _, j := range jsons"
UIDParse ==
  /\ mode = "uid" /\ pc = "parse"
  /\ LET j == jsons[i][1]
         bytes == fs[j]
         d == Unmarshal(bytes, ZeroDash)
     IN IF ~WellFormed(bytes)
        THEN Fatal("parse") /\ UNCHANGED <<jsonMap, todo, i, accepted>>
        ELSE IF ~UidKnown(d.UID)
        THEN Fatal("notfound") /\ UNCHANGED <<jsonMap, todo, i, accepted>>
        ELSE IF UidSeen(d.UID)
        THEN Fatal("duplicate") /\ UNCHANGED <<jsonMap, todo, i, accepted>>
        ELSE /\ jsonMap' = [u \in DOMAIN jsonMap \cup {d.UID} |->
                              IF u = d.UID THEN JsonDash(j, bytes, d) ELSE jsonMap[u]]
             /\ accepted' = accepted \cup {j}
             /\ i' = i + 1
             /\ todo' = IF i = Len(jsons) THEN DOMAIN jsonMap' ELSE todo
             /\ pc' = IF i = Len(jsons) THEN "tags" ELSE "parse"
             /\ UNCHANGED err
  /\ UNCHANGED <<wrapVars, input, db, tagTbl, fs, backups, backedUp, contents, dbMap, cur,
                 updated, nImp, titleVars, db0, nRowUpd, rowWas, rowBy, nTagOps, modBy,
                 roundTrip, tagsVars>>

\* "continue", or the end of the body, of "for uid, dd := range jsonMap"
UIDNext ==
  /\ todo' = todo \ {cur}
  /\ pc' = IF todo' = {} THEN "done" ELSE "tags"

\* the head of the loop and "updated := updateTags(...)"; a Go map is ranged
\* over in no particular order
UIDTags ==
  /\ mode = "uid" /\ pc = "tags"
  /\ \E uid \in todo :
       LET dd == jsonMap[uid]
           r == updateTags(tagTbl[dd.id], dd.dash.Tags)
           n == Cardinality(r.ins) + Cardinality(r.del)
       IN /\ cur' = uid
          /\ tagTbl' = [tagTbl EXCEPT ![dd.id] = r.rows]
          /\ updated' = r.changed
          /\ jsonMap' = [jsonMap EXCEPT ![uid].dash.Tags = r.sorted]
          /\ nTagOps' = nTagOps + n
          /\ modBy' = IF n > 0 THEN modBy \cup {dd.fn} ELSE modBy
  /\ pc' = "cmp"
  /\ UNCHANGED <<wrapVars, input, db, fs, backups, err, i, backedUp, contents, dbMap, todo,
                 nImp, titleVars, db0, nRowUpd, rowWas, rowBy, accepted, roundTrip, tagsVars>>

\* Unchanged with a fault: the three comparisons are never all true
Unchanged_Never(ddWas, dd) == FALSE

\* "ddWas.dash.Title == dd.dash.Title && ddWas.slug == dd.slug && ddWas.data == dd.data"
Unchanged(ddWas, dd) ==
  ddWas.dash.Title = dd.dash.Title /\ ddWas.slug = dd.slug /\ ddWas.data = dd.data

\* "Check if we actually need to update anything"
UIDCmp ==
  /\ mode = "uid" /\ pc = "cmp"
  /\ IF Unchanged(dbMap[cur], jsonMap[cur])
     THEN /\ IF updated
             THEN EnsureBackup /\ nImp' = nImp + 1
             ELSE UNCHANGED <<backups, backedUp, nImp>>
          /\ UIDNext
     ELSE pc' = "exec" /\ UNCHANGED <<backups, backedUp, nImp, todo>>
  /\ UNCHANGED <<wrapVars, input, db, tagTbl, fs, err, i, contents, dbMap, jsonMap, cur,
                 updated, titleVars, db0, nRowUpd, rowWas, rowBy, nTagOps, accepted, modBy,
                 roundTrip, tagsVars>>

\* UpdateRow with a fault: the statement has no "where id = ?"
UpdateRow_NoWhere(n, title, sl, bytes) ==
  /\ db' = [k \in DOMAIN db |-> Row(k, title, sl, bytes)]
  /\ rowWas' = db[n]
  /\ nRowUpd' = nRowUpd + 1

\* "update dashboard set title = ?, slug = ?, data = ? where id = ?"
UpdateRow(n, title, sl, bytes) ==
  /\ db' = [db EXCEPT ![n] = Row(n, title, sl, bytes)]
  /\ rowWas' = db[n]
  /\ nRowUpd' = nRowUpd + 1

UIDExec ==
  /\ mode = "uid" /\ pc = "exec"
  /\ LET dd == jsonMap[cur]
     IN /\ UpdateRow(dd.id, dd.dash.Title, dd.slug, dd.data)
        /\ modBy' = modBy \cup {dd.fn}
        /\ rowBy' = rowBy \cup {dd.fn}
  /\ pc' = "was"
  /\ UNCHANGED <<wrapVars, input, tagTbl, fs, backups, err, i, backedUp, contents, uidVars,
                 updated, nImp, titleVars, db0, nTagOps, accepted, roundTrip,
                 tagsVars>>

\* WriteWas with a fault: the sidecar gets the canonical form of the input file
WriteWas_Input(fn, bytes) ==
  fs' = [p \in DOMAIN fs \cup {fn \o <<".was">>} |->
           IF p = fn \o <<".was">> THEN PrettyPrintJSON(fs[fn]) ELSE fs[p]]

\* ioutil.WriteFile(fn + ".was", bytes, 0644)
WriteWas(fn, bytes) ==
  fs' = [p \in DOMAIN fs \cup {fn \o <<".was">>} |->
           IF p = fn \o <<".was">> THEN bytes ELSE fs[p]]

\* "And save JSON from DB"
UIDWas ==
  /\ mode = "uid" /\ pc = "was"
  /\ WriteWas(jsonMap[cur].fn, dbMap[cur].data)
  /\ pc' = "bak"
  /\ UNCHANGED <<wrapVars, input, db, tagTbl, backups, err, i, backedUp, contents, uidVars,
                 updated, nImp, titleVars, db0, nRowUpd, rowWas, rowBy, nTagOps, accepted, modBy,
                 roundTrip, tagsVars>>

\* "Something changed, backup original db file"
UIDBackup ==
  /\ mode = "uid" /\ pc = "bak"
  /\ EnsureBackup
  /\ nImp' = nImp + 1
  /\ UIDNext
  /\ UNCHANGED <<wrapVars, input, db, tagTbl, fs, err, i, contents, dbMap, jsonMap, cur,
                 updated, titleVars, db0, nRowUpd, rowWas, rowBy, nTagOps, accepted, modBy,
                 roundTrip, tagsVars>>

(***************************************************************************)
(* importJsonsByTitle.                                                     *)
(***************************************************************************)
TitleStart ==
  /\ mode = "title" /\ pc = "start"
  /\ ReadContents
  /\ pc' = "tread"
  /\ UNCHANGED <<wrapVars, input, db, tagTbl, fs, backups, err, i, backedUp, uidVars,
                 updated, nImp, titleVars, db0, nRowUpd, rowWas, rowBy, nTagOps, accepted,
                 modBy, roundTrip, tagsVars>>

\* "Read JSON: get title & uid": the split, the arity check, the read and
\* the parse into dash, a variable declared outside the loop
TitleRead ==
  /\ mode = "title" /\ pc = "tread"
  /\ LET ary == jsons[i]
         j == ary[1]
         bytes == fs[j]
     IN IF Len(ary) # 1 /\ Len(ary) # 3
        THEN Fatal("arity") /\ UNCHANGED <<dash, accepted>>
        ELSE IF ~WellFormed(bytes)
        THEN Fatal("parse") /\ UNCHANGED <<dash, accepted>>
        ELSE /\ dash' = Unmarshal(bytes, dash)
             /\ accepted' = accepted \cup {j}
             /\ pc' = "tlookup" /\ UNCHANGED err
  /\ UNCHANGED <<wrapVars, input, db, tagTbl, fs, backups, i, backedUp, contents, uidVars,
                 updated, nImp, dash2, data, id, slug, db0, nRowUpd, rowWas, rowBy, nTagOps,
                 modBy, roundTrip, tagsVars>>

\* "continue", or the end of the body, of "for i, jdata := range jsons"
TitleNext ==
  /\ i' = i + 1
  /\ pc' = IF i = Len(jsons) THEN "done" ELSE "tread"

\* "Either use dashboard title from JSON or use "old title" provided from command line"
DashTitle(ary, d) == IF Len(ary) > 1 THEN ary[2] ELSE d.Title

\* UidMismatch with a fault: the uids are not compared
UidMismatch_Never(a, b) == FALSE

\* "if dash.UID != dash2.UID"
UidMismatch(a, b) == a # b

\* "Get original id, JSON, slug" and "Check UIDs": the row scanned last stays
\* in id, data and slug, and the query states no order
TitleLookup ==
  /\ mode = "title" /\ pc = "tlookup"
  /\ LET found == {k \in DOMAIN db : db[k].title = DashTitle(jsons[i], dash)}
     IN IF found = {}
        THEN Fatal("notfound") /\ UNCHANGED <<i, dash2, data, id, slug>>
        ELSE \E k \in found :
               /\ id' = k /\ data' = db[k].data /\ slug' = db[k].slug
               /\ IF ~WellFormed(db[k].data)
                  THEN Fatal("parse") /\ UNCHANGED <<i, dash2>>
                  ELSE /\ dash2' = Unmarshal(db[k].data, dash2)
                       /\ UNCHANGED err
                       /\ IF UidMismatch(dash.UID, dash2'.UID)
                          THEN TitleNext
                          ELSE pc' = "texec" /\ UNCHANGED i
  /\ UNCHANGED <<wrapVars, input, db, tagTbl, fs, backups, backedUp, contents, uidVars,
                 updated, nImp, dash, db0, nRowUpd, rowWas, rowBy, nTagOps, accepted, modBy,
                 roundTrip, tagsVars>>

\* "dashSlug := slug; if len(ary) > 2 { dashSlug = ary[2] }"
DashSlug(ary, sl) == IF Len(ary) > 2 THEN ary[3] ELSE sl

\* "Update JSON inside database": the bytes of the file go in as read
TitleExec ==
  /\ mode = "title" /\ pc = "texec"
  /\ LET ary == jsons[i]
     IN /\ UpdateRow(id, dash.Title, DashSlug(ary, slug), fs[ary[1]])
        /\ modBy' = modBy \cup {ary[1]}
        /\ rowBy' = rowBy \cup {ary[1]}
  /\ pc' = "ttags"
  /\ UNCHANGED <<wrapVars, input, tagTbl, fs, backups, err, i, backedUp, contents, uidVars,
                 updated, nImp, titleVars, db0, nTagOps, accepted, roundTrip,
                 tagsVars>>

\* "updated := updateTags(db, ctx, id, dash.Tags, ...)"
TitleTags ==
  /\ mode = "title" /\ pc = "ttags"
  /\ LET r == updateTags(tagTbl[id], dash.Tags)
         n == Cardinality(r.ins) + Cardinality(r.del)
     IN /\ tagTbl' = [tagTbl EXCEPT ![id] = r.rows]
        /\ updated' = r.changed
        /\ dash' = [dash EXCEPT !.Tags = r.sorted]
        /\ nTagOps' = nTagOps + n
        /\ modBy' = IF n > 0 THEN modBy \cup {jsons[i][1]} ELSE modBy
  /\ pc' = "twas"
  /\ UNCHANGED <<wrapVars, input, db, fs, backups, err, i, backedUp, contents, uidVars,
                 nImp, dash2, data, id, slug, db0, nRowUpd, rowWas, rowBy, accepted, roundTrip,
                 tagsVars>>

\* "And save JSON from DB"
TitleWas ==
  /\ mode = "title" /\ pc = "twas"
  /\ WriteWas(jsons[i][1], PrettyPrintJSON(data))
  /\ pc' = "tbak"
  /\ UNCHANGED <<wrapVars, input, db, tagTbl, backups, err, i, backedUp, contents, uidVars,
                 updated, nImp, titleVars, db0, nRowUpd, rowWas, rowBy, nTagOps, accepted, modBy,
                 roundTrip, tagsVars>>

\* "Something changed, backup original db file"
TitleBackup ==
  /\ mode = "title" /\ pc = "tbak"
  /\ EnsureBackup
  /\ TitleNext
  /\ UNCHANGED <<wrapVars, input, db, tagTbl, fs, err, contents, uidVars, updated, nImp,
                 titleVars, db0, nRowUpd, rowWas, rowBy, nTagOps, accepted, modBy, roundTrip,
                 tagsVars>>

\* lib.FatalOnError(ioutil.WriteFile(...)): the write of the sidecar, or of
\* the backup, fails and the process ends
WriteFails ==
  /\ pc \in {"was", "twas"} \/ (pc \in {"bak", "tbak"} /\ ~backedUp)
  /\ Fatal("io")
  /\ UNCHANGED <<wrapVars, input, db, tagTbl, fs, backups, i, backedUp, contents, uidVars,
                 updated, nImp, titleVars, db0, nRowUpd, rowWas, rowBy, nTagOps, accepted, modBy,
                 roundTrip, tagsVars>>

(***************************************************************************)
(* exportJsons, and a second run of the program on what it wrote.          *)
(***************************************************************************)
\* "sqlite/" + slug + ".json"
ExportPath(sl) == <<"sqlite/">> \o sl \o <<".json">>

ExportStart ==
  /\ mode = "export" /\ pc = "start"
  /\ pc' = "rows"
  /\ UNCHANGED <<wrapVars, input, db, tagTbl, fs, backups, err, i, backedUp, contents,
                 uidVars, updated, nImp, titleVars, db0, nRowUpd, rowWas, rowBy, nTagOps,
                 accepted, modBy, roundTrip, tagsVars>>

\* one iteration of "for rows.Next()": the rows come in the order of their ids
ExportRow ==
  /\ mode = "export" /\ pc = "rows"
  /\ LET r == db[i]
         fn == ExportPath(r.slug)
     IN IF ~WellFormed(r.data)
        THEN Fatal("parse") /\ UNCHANGED <<fs, i>>
        ELSE /\ fs' = [p \in DOMAIN fs \cup {fn} |->
                         IF p = fn THEN PrettyPrintJSON(r.data) ELSE fs[p]]
             /\ i' = i + 1
             /\ pc' = IF i = Cardinality(DOMAIN db) THEN "done" ELSE "rows"
             /\ UNCHANGED err
  /\ UNCHANGED <<wrapVars, input, db, tagTbl, backups, backedUp, contents, uidVars,
                 updated, nImp, titleVars, db0, nRowUpd, rowWas, rowBy, nTagOps, accepted,
                 modBy, roundTrip, tagsVars>>

\* the files exportJsons has written
Exported == {p \in DOMAIN fs : p[1] = "sqlite/"}

\* the lists that name every element of S once
Orderings(S) ==
  {q \in [1..Cardinality(S) -> S] : \A a, b \in DOMAIN q : q[a] = q[b] => a = b}

\* main, run again with GHA2DB_UIDMODE set and the exported files as items
Reimport ==
  /\ mode = "export" /\ pc = "done"
  /\ mode' = "uid"
  /\ \E q \in Orderings(Exported) : jsons' = [n \in DOMAIN q |-> <<q[n]>>]
  /\ pc' = "start" /\ i' = 1
  /\ roundTrip' = TRUE
  /\ db0' = DbFile
  /\ UNCHANGED <<wrapVars, db, tagTbl, fs, backups, err, backedUp, contents, uidVars,
                 updated, nImp, titleVars, nRowUpd, rowWas, rowBy, nTagOps, accepted, modBy,
                 tagsVars>>

Next ==
  \/ UIDStart \/ UIDLoadDb \/ UIDParse \/ UIDTags \/ UIDCmp \/ UIDExec
  \/ UIDWas \/ UIDBackup
  \/ TitleStart \/ TitleRead \/ TitleLookup \/ TitleExec \/ TitleTags
  \/ TitleWas \/ TitleBackup
  \/ WriteFails
  \/ ExportStart \/ ExportRow \/ Reimport

Spec == Init /\ [][Next]_vars

(***************************************************************************)
(* updateTags called on its own, twice with the same JSON tag list.        *)
(***************************************************************************)
\* the lists of at most MaxTagLen tags
TagLists == UNION {[1..n -> TagUniverse] : n \in 0..MaxTagLen}

InitTags ==
  /\ mode = "tags" /\ jsons = <<>>
  /\ db = (1 :> Row1) /\ tagTbl = (1 :> {})
  /\ fs = InputFiles
  /\ db0 = [dashboard |-> db, dashboard_tag |-> tagTbl]
  /\ roundTrip = FALSE
  /\ Fresh
  /\ NoWrapper
  /\ tgJson \in TagLists
  /\ tgRows \in SUBSET TagUniverse
  /\ tgLog = <<>>

\* a call of updateTags: tgLog keeps its arguments and what it did
TagsCall ==
  /\ mode = "tags" /\ Len(tgLog) < 2
  /\ LET r == updateTags(tgRows, tgJson)
     IN /\ tgRows' = r.rows
        /\ tgJson' = r.sorted
        /\ tgLog' = Append(tgLog, [json |-> IF tgLog = <<>> THEN tgJson ELSE tgLog[1].json,
                                   rows |-> tgRows, changed |-> r.changed,
                                   ins |-> r.ins, del |-> r.del, after |-> r.rows])
  /\ UNCHANGED <<wrapVars, input, db, tagTbl, fs, backups, pc, err, i, backedUp, contents,
                 uidVars, updated, nImp, titleVars, db0, nRowUpd, rowWas, rowBy, nTagOps,
                 accepted, modBy, roundTrip>>

NextTags == TagsCall

SpecTags == InitTags /\ [][NextTags]_vars

(***************************************************************************)
(* The import wrapper script: it copies the live Grafana database, runs    *)
(* sqlitedb on the copy, stops Grafana, copies the file back and starts    *)
(* Grafana again.  Each command followed by "|| exit n" may fail.          *)
(***************************************************************************)

\* the script starts with Grafana running or not, and with or without
\* $GRAFANA and a first argument
InitWrapper ==
  /\ mode = "uid" /\ jsons = <<>>
  /\ db = (1 :> Row1) /\ tagTbl = (1 :> {})
  /\ fs = InputFiles
  /\ db0 = [dashboard |-> db, dashboard_tag |-> tagTbl]
  /\ roundTrip = FALSE
  /\ Fresh
  /\ tgJson = <<>> /\ tgRows = {} /\ tgLog = <<>>
  /\ wpc = "env" /\ wcode = 0
  /\ service \in {"running", "stopped"}
  /\ live = DbCopy(0, FALSE) /\ local = DbCopy(0, FALSE)
  /\ wenv \in BOOLEAN \X BOOLEAN
  /\ wlog = <<>>

notWrapper == <<input, db, tagTbl, fs, backups, pc, err, i, backedUp, contents, uidVars,
                updated, nImp, titleVars, db0, nRowUpd, rowWas, rowBy, nTagOps, accepted, modBy,
                roundTrip, tagsVars>>

\* exit n
Exit(n) == wpc' = "exit" /\ wcode' = n

\* history: a command of the script ran, with Grafana and the live file as they were
Logged(step, ok) ==
  wlog' = Append(wlog, [step |-> step, ok |-> ok, service |-> service, writes |-> live.writes])

\* a running Grafana writes to its database file
GrafanaWrites ==
  /\ wpc \notin {"off", "exit"}
  /\ service = "running" /\ live.writes < MaxWrites
  /\ live' = [live EXCEPT !.writes = @ + 1]
  /\ UNCHANGED <<wpc, wcode, service, local, wenv, wlog, notWrapper>>

\* if [ -z "$GRAFANA" ] ... exit 1
WrapCheckEnv ==
  /\ wpc = "env"
  /\ IF wenv[1] THEN wpc' = "args" /\ wcode' = wcode ELSE Exit(1)
  /\ UNCHANGED <<service, live, local, wenv, wlog, notWrapper>>

\* if [ -z "$1" ] ... exit 2
WrapCheckArgs ==
  /\ wpc = "args"
  /\ IF wenv[2] THEN wpc' = "copydbs" /\ wcode' = wcode ELSE Exit(2)
  /\ UNCHANGED <<service, live, local, wenv, wlog, notWrapper>>

\* ./grafana/copy_grafana_dbs.sh || exit 3
WrapCopyDbs ==
  /\ wpc = "copydbs"
  /\ \E ok \in BOOLEAN :
       /\ IF ok THEN wpc' = "cpin" /\ wcode' = wcode ELSE Exit(3)
       /\ Logged("copydbs", ok)
  /\ UNCHANGED <<service, live, local, wenv, notWrapper>>

\* cp /var/lib/grafana.$GRAFANA/grafana.db ./grafana.$GRAFANA.db || exit 4
WrapCopyIn ==
  /\ wpc = "cpin"
  /\ \E ok \in BOOLEAN :
       /\ IF ok THEN wpc' = "import" /\ wcode' = wcode /\ local' = live
                ELSE Exit(4) /\ local' = local
       /\ Logged("cpin", ok)
  /\ UNCHANGED <<service, live, wenv, notWrapper>>

\* GHA2DB_UIDMODE=1 ./sqlitedb ./grafana.$GRAFANA.db $* || exit 5
WrapImport ==
  /\ wpc = "import"
  /\ \E ok \in BOOLEAN :
       /\ IF ok THEN wpc' = "stop" /\ wcode' = wcode ELSE Exit(5)
       /\ Logged("import", ok)
  /\ local' = [local EXCEPT !.imported = TRUE]
  /\ UNCHANGED <<service, live, wenv, notWrapper>>

\* WrapStop with a fault: the script goes on without stopping Grafana
WrapStop_Skipped ==
  /\ wpc = "stop"
  /\ wpc' = "cpback" /\ wcode' = wcode
  /\ Logged("stop", TRUE)
  /\ UNCHANGED <<service, live, local, wenv, notWrapper>>

\* ./devel/grafana_stop.sh $GRAFANA || exit 6
WrapStop ==
  /\ wpc = "stop"
  /\ \E ok \in BOOLEAN :
       /\ IF ok THEN wpc' = "cpback" /\ wcode' = wcode /\ service' = "stopped"
                ELSE Exit(6) /\ service' \in {service, "stopped"}
       /\ Logged("stop", ok)
  /\ UNCHANGED <<live, local, wenv, notWrapper>>

\* cp ./grafana.$GRAFANA.db /var/lib/grafana.$GRAFANA/grafana.db || exit 7
WrapCopyBack ==
  /\ wpc = "cpback"
  /\ \E ok \in BOOLEAN :
       /\ IF ok THEN wpc' = "ls" /\ wcode' = wcode /\ live' = local
                ELSE Exit(7) /\ live' = live
       /\ Logged("cpback", ok)
  /\ UNCHANGED <<service, local, wenv, notWrapper>>

\* ls -l ./grafana.$GRAFANA.db.*  (its status is not looked at)
WrapList ==
  /\ wpc = "ls"
  /\ wpc' = "start"
  /\ \E ok \in BOOLEAN : Logged("ls", ok)
  /\ UNCHANGED <<wcode, service, live, local, wenv, notWrapper>>

\* ./devel/grafana_start.sh $GRAFANA || exit 8
WrapStart ==
  /\ wpc = "start"
  /\ \E ok \in BOOLEAN :
       /\ IF ok THEN wpc' = "ok" /\ wcode' = wcode /\ service' = "running"
                ELSE Exit(8) /\ service' \in {service, "running"}
       /\ Logged("start", ok)
  /\ UNCHANGED <<live, local, wenv, notWrapper>>

\* echo "OK, ..." and the end of the script
WrapOk ==
  /\ wpc = "ok"
  /\ Exit(0)
  /\ UNCHANGED <<service, live, local, wenv, wlog, notWrapper>>

NextWrapper ==
  \/ GrafanaWrites
  \/ WrapCheckEnv \/ WrapCheckArgs \/ WrapCopyDbs \/ WrapCopyIn \/ WrapImport
  \/ WrapStop \/ WrapCopyBack \/ WrapList \/ WrapStart \/ WrapOk

SpecWrapper == InitWrapper /\ [][NextWrapper]_vars

(***************************************************************************)
(* Properties.                                                             *)
(***************************************************************************)
\* the sidecar files written so far
Sidecars == {p \in DOMAIN fs : p[Len(p)] = ".was"}

\* nothing of the database, and no file, has been written by the run
NoSideEffects ==
  /\ nRowUpd = 0 /\ nTagOps = 0 /\ DbFile = db0
  /\ backups = <<>> /\ Sidecars = {}

\* the run is past the loop that parses the files of importJsonsByUID
InUpdateLoop == pc \in {"tags", "cmp", "exec", "was", "bak", "done"}

\* the uid json.Unmarshal finds in a file
FileUid(j) == Unmarshal(fs[j], ZeroDash).UID

\* C1: Backup-once. A run never writes more than one backup file, whatever
\* the number of dashboards it changes; every backup file holds the database
\* as it was when the run started; and an import that has run to its end
\* having executed at least one row update or tag insert/delete has written
\* exactly one.
C1_BackupOnce ==
  /\ Len(backups) <= 1
  /\ \A n \in 1..Len(backups) : backups[n] = db0
  /\ (mode \in {"uid", "title"} /\ pc = "done" /\ nRowUpd + nTagOps >= 1)
       => Len(backups) = 1

\* two dashboards were updated, the run is over, one backup, of the old database
C1_Witness ==
  /\ pc = "done" /\ nRowUpd >= 2 /\ Len(backups) = 1
  /\ db[1] # db0.dashboard[1] /\ db[2] # db0.dashboard[2]
  /\ backups[1] = db0

\* C2: Backup precedes mutation. In every reachable state, a fatal stop
\* included, a database that has been written to (a row update or a tag
\* insert/delete was executed) implies that the backup file exists.
C2_BackupPrecedesMutation == nRowUpd + nTagOps >= 1 => Len(backups) >= 1

\* C3: Tag symmetric difference. The first call inserts exactly A \ B and
\* deletes exactly B \ A, so the rows become A; the second call with the same
\* A inserts and deletes nothing.
C3_TagSymmetricDifference ==
  /\ Len(tgLog) >= 1 =>
       LET A == Range(tgLog[1].json)
           B == tgLog[1].rows
       IN /\ tgLog[1].ins = A \ B
          /\ tgLog[1].del = B \ A
          /\ tgLog[1].after = A
  /\ Len(tgLog) >= 2 =>
       /\ tgLog[2].ins = {} /\ tgLog[2].del = {}
       /\ tgLog[2].after = tgLog[2].rows

\* every row of every dashboard has the slug of its title, and tag rows that
\* are the tags of its data column, none of them repeated there
SlugsAndTagsInStep(d) ==
  \A k \in DOMAIN d.dashboard :
    LET r == d.dashboard[k]
        tags == Unmarshal(r.data, ZeroDash).Tags
    IN /\ r.slug = Slugify(r.title)
       /\ Range(tags) = d.dashboard_tag[k]
       /\ Len(tags) = Cardinality(d.dashboard_tag[k])

\* C4 as stated: Round-trip idempotence. For any database, an export
\* followed by an import by uid of the exported files changes no row and no
\* tag and writes neither a backup nor a sidecar.
C4_RoundTripAnyDatabase == roundTrip => NoSideEffects

\* C4 as amended: the same, for a database in which every row's slug is the
\* slug of its title and every dashboard's tag rows are the tags of its data.
C4_RoundTrip == (roundTrip /\ SlugsAndTagsInStep(db0)) => NoSideEffects

\* the re-import of a database whose data was not in canonical form ran to its
\* end and imported nothing
C4_Witness ==
  /\ roundTrip /\ pc = "done" /\ SlugsAndTagsInStep(db0)
  /\ db[1].data.layout = "compact" /\ Len(jsons) = 2 /\ nImp = 0

\* the uids of the dashboards of the database the run started from
DbUids == {Unmarshal(db0.dashboard[k].data, ZeroDash).UID : k \in DOMAIN db0.dashboard}

\* some item of the run is a document whose uid no dashboard has
HasUnknownUid ==
  \E n \in DOMAIN jsons :
    WellFormed(fs[jsons[n][1]]) /\ FileUid(jsons[n][1]) \notin DbUids

\* C5: Unknown identifier is fatal with no side effects. If any document of
\* an import by uid has a uid no dashboard has, the run never gets past the
\* parsing of its files: that document is not accepted, the update loop is
\* not entered, the run does not complete, and no row, tag, backup or
\* sidecar is written, wherever the document stands in the list.
C5_UnknownUidFatal ==
  (mode = "uid" /\ HasUnknownUid) =>
    /\ NoSideEffects
    /\ ~InUpdateLoop
    /\ \A j \in accepted : FileUid(j) \in DbUids

\* the run died on the second document, after it had accepted the first
C5_Witness ==
  /\ mode = "uid" /\ pc = "fatal" /\ err = "notfound"
  /\ i = 2 /\ accepted # {} /\ NoSideEffects

\* two items of the run are documents with the same uid
HasDuplicateUid ==
  \E m, n \in DOMAIN jsons :
    /\ m < n
    /\ WellFormed(fs[jsons[m][1]]) /\ WellFormed(fs[jsons[n][1]])
    /\ FileUid(jsons[m][1]) = FileUid(jsons[n][1])

\* C6: Duplicate identifier detection. If two documents of an import by uid
\* carry the same uid, the run never enters the update loop and no dashboard
\* row or tag row is written, wherever the two stand in the list.
C6_DuplicateUidFatal ==
  (mode = "uid" /\ HasDuplicateUid) =>
    /\ nRowUpd = 0 /\ nTagOps = 0 /\ DbFile = db0
    /\ ~InUpdateLoop

\* the run died on the second of two documents with one uid
C6_Witness ==
  /\ mode = "uid" /\ pc = "fatal" /\ err = "duplicate"
  /\ HasDuplicateUid /\ DbFile = db0

\* C7: Identifier mismatch is a soft skip in Title Matching. A step that
\* looks up the record for an item and finds one whose data carries a uid
\* other than the uid the document carries writes nothing (no row, no tag,
\* no sidecar, no backup), does not end the run, and moves on to the next
\* item, if there is one.
C7_UidMismatchSoftSkip ==
  [][ ( /\ mode = "title" /\ pc = "tlookup" /\ pc' # pc
        /\ id' \in DOMAIN db
        /\ db[id'].title = DashTitle(jsons[i], dash)
        /\ db[id'].data.uid # <<>>
        /\ fs[jsons[i][1]].uid # <<>>
        /\ db[id'].data.uid # fs[jsons[i][1]].uid )
      => ( /\ UNCHANGED <<db, tagTbl, fs, backups, nRowUpd, nTagOps>>
           /\ i' = i + 1
           /\ pc' = IF i < Len(jsons) THEN "tread" ELSE "done" ) ]_vars

\* the first item was skipped for its uid, its record is as it was, and the
\* second item was imported
C7_Witness ==
  /\ mode = "title" /\ pc = "done" /\ Len(jsons) = 2
  /\ jsons[1] = << <<"fx">> >>
  /\ db0.dashboard[2].title = Title2 /\ db0.dashboard[2].data.uid = <<"u2">>
  /\ db[2] = db0.dashboard[2] /\ tagTbl[2] = db0.dashboard_tag[2]
  /\ nRowUpd = 1 /\ Cardinality(Sidecars) = 1

\* the document has a title and a uid, neither empty
HasRequired(bytes) ==
  /\ bytes.title # <<>> /\ bytes.title[1] # <<>>
  /\ bytes.uid # <<>> /\ bytes.uid[1] # ""

\* C8: Required fields. A document without title or without uid is never
\* accepted by the parsing of either import, and no row or tag is written on
\* its behalf.
C8_RequiredFields ==
  \A j \in accepted \cup modBy : j \in DOMAIN fs => HasRequired(fs[j])

\* the multiset of the tags of list l is the set S, each tag taken once
SameTags(l, S) ==
  \A t \in TagUniverse :
    Cardinality({n \in DOMAIN l : l[n] = t}) = IF t \in S THEN 1 ELSE 0

\* a tag with its letters in lower case
FoldCase(t) == [n \in DOMAIN t |-> ToLower(t[n])]

\* list l and set S hold the same tags as often, letter case aside
SameTagsFolded(l, S) ==
  \A t \in {FoldCase(u) : u \in TagUniverse} :
    Cardinality({n \in DOMAIN l : FoldCase(l[n]) = t})
      = Cardinality({u \in S : FoldCase(u) = t})

\* C9 as stated: Tag-set equality is case- and order-insensitive. A JSON
\* list and tag rows that differ only in order or in letter case make
\* updateTags return false and insert and delete nothing.
C9_CaseAndOrderInsensitive ==
  (Len(tgLog) >= 1 /\ SameTagsFolded(tgLog[1].json, tgLog[1].rows)) =>
    ~tgLog[1].changed /\ tgLog[1].ins = {} /\ tgLog[1].del = {}

\* C9 as amended: Tag-set equality is order-insensitive. A JSON list and tag
\* rows that differ only in order make updateTags return false and insert and
\* delete nothing.
C9_OrderInsensitive ==
  (Len(tgLog) >= 1 /\ SameTags(tgLog[1].json, tgLog[1].rows)) =>
    ~tgLog[1].changed /\ tgLog[1].ins = {} /\ tgLog[1].del = {}

\* a list in descending order met the same two tags in the database
C9_Witness ==
  /\ Len(tgLog) >= 1
  /\ tgLog[1].json = <<TagB, TagA>> /\ tgLog[1].rows = {TagA, TagB}
  /\ ~tgLog[1].changed

\* in every row the title column is the title of the parsed data column, as
\* the check "SQLite internal inconsistency" of importJsonsByUID has it
Consistent(d) ==
  \A k \in DOMAIN d :
    WellFormed(d[k].data) /\ d[k].title = Unmarshal(d[k].data, ZeroDash).Title

\* C10: Title/content consistency is preserved. If every row had the title
\* of its data when the run started, every row has it after any number of
\* item updates by either import.
C10_TitleConsistencyPreserved == Consistent(db0.dashboard) => Consistent(db)

(***************************************************************************)
(* The import wrapper script.                                              *)
(***************************************************************************)

\* the commands of the script that ran, as positions in wlog
Ran(step) == {k \in 1..Len(wlog) : wlog[k].step = step}
RanOk(step) == {k \in Ran(step) : wlog[k].ok}

\* C11 as stated: the import program runs only with the service stopped,
\* after the script has stopped it.
C11_ImportWhileStopped ==
  \A k \in Ran("import") :
    /\ wlog[k].service = "stopped"
    /\ \E j \in RanOk("stop") : j < k

\* C11 amended: the import program runs on a private copy before the service is
\* stopped; the copy replaces the live file only after the import program has
\* succeeded and the service has then been stopped, with the service still
\* stopped; a script that exits with status 0 has started the service again
\* and leaves the live file imported.
C11_CopyBackWhileStopped ==
  /\ \A k \in Ran("cpback") :
       /\ wlog[k].service = "stopped"
       /\ \E j \in RanOk("stop") : j < k /\ \E m \in RanOk("import") : m < j
  /\ \A j \in Ran("stop") : \E m \in RanOk("import") : m < j
  /\ (wpc = "exit" /\ wcode = 0) =>
       /\ service = "running" /\ live.imported
       /\ \E k \in RanOk("cpback") : \E j \in RanOk("start") : k < j

\* the script succeeds with the import program run while the service was
\* running, and the copy back made with the service stopped
C11_Witness ==
  /\ wpc = "exit" /\ wcode = 0 /\ service = "running" /\ live.imported
  /\ \E k \in RanOk("import") : wlog[k].service = "running"
  /\ \E k \in RanOk("cpback") : wlog[k].service = "stopped" /\ wlog[k].writes > local.writes

\* C20 as stated: when the script has stopped the service, it runs the start
\* command before it exits, also when the copy back fails.
C20_RestartAfterStop ==
  wpc = "exit" =>
    \A k \in RanOk("stop") : \E j \in Ran("start") : k < j

(***************************************************************************)
(* importJsonsByUID: what a run writes, and what it leaves alone.          *)
(***************************************************************************)

\* the input at hand has the canonical content, the title and the computed
\* slug of the record its uid matched
SameAsRecord ==
  LET dd == jsonMap[cur]
      rec == db[dd.id]
      doc == Unmarshal(fs[dd.fn], ZeroDash)
  IN /\ PrettyPrintJSON(fs[dd.fn]) = PrettyPrintJSON(rec.data)
     /\ doc.Title = rec.title
     /\ Slugify(doc.Title) = rec.slug

\* C12: No write when unchanged. In importJsonsByUID, the step that decides
\* about an input whose canonical content, title and computed slug equal
\* those of the matched record issues no row update and writes no file; it
\* takes a backup and counts the input as imported only if updateTags
\* reported a change, and then it does count it.
C12_NoWriteWhenUnchanged ==
  [][(mode = "uid" /\ pc = "cmp" /\ SameAsRecord) =>
       /\ pc' # "exec" /\ db' = db /\ fs' = fs /\ nRowUpd' = nRowUpd
       /\ nImp' = nImp + (IF updated THEN 1 ELSE 0)
       /\ updated => Len(backups') = 1
       /\ ~updated => backups' = backups]_vars

\* a run changed tag rows only: one input counted, one backup, no row update
\* and no sidecar
C12_Witness ==
  /\ mode = "uid" /\ pc = "done" /\ ~roundTrip
  /\ nRowUpd = 0 /\ nTagOps >= 1 /\ nImp = 1 /\ Len(backups) = 1
  /\ Sidecars = {} /\ db = db0.dashboard

\* what json.Unmarshal finds in a file, read into a fresh variable
FileDash(j) == Unmarshal(fs[j], ZeroDash)

\* the dashboards whose data column holds the uid
RowsOfUid(uid) == {k \in DOMAIN db : Unmarshal(db[k].data, ZeroDash).UID = uid}

\* C13 as stated: Identifier Matching converges. After a run of
\* importJsonsByUID that came to its end, for every input document the record
\* with that uid has the document's title, the slug of that title, the
\* canonical form of the input bytes as content, and the document's tags as
\* its tag rows.
C13_Converges ==
  (mode = "uid" /\ pc = "done") =>
    \A n \in DOMAIN jsons :
      LET j == jsons[n][1]
          doc == FileDash(j)
      IN /\ RowsOfUid(doc.UID) # {}
         /\ \A k \in RowsOfUid(doc.UID) :
              /\ db[k].title = doc.Title
              /\ db[k].slug = Slugify(doc.Title)
              /\ db[k].data = PrettyPrintJSON(fs[j])
              /\ tagTbl[k] = Range(doc.Tags)

(***************************************************************************)
(* importJsonsByTitle.                                                     *)
(***************************************************************************)

\* C14 as stated: Title Matching update. When an item of importJsonsByTitle
\* that was not skipped has been processed, the record found by the lookup
\* title (the old title of the item if it has one, else the title of the
\* document) has the document's title, the input as content, the document's
\* tags as tag rows, and the new slug of a three-part item; a bare-path item
\* leaves title and slug of the record as they were.
C14_TitleMatchingUpdate ==
  (mode = "title" /\ pc = "tbak") =>
    LET ary == jsons[i]
        doc == FileDash(ary[1])
    IN /\ rowWas.id = id
       /\ rowWas.title = IF Len(ary) > 1 THEN ary[2] ELSE doc.Title
       /\ db[id].title = doc.Title
       /\ db[id].data = fs[ary[1]]
       /\ tagTbl[id] = Range(doc.Tags)
       /\ Len(ary) = 3 => db[id].slug = ary[3]
       /\ Len(ary) = 1 => db[id].title = rowWas.title /\ db[id].slug = rowWas.slug

\* C18 as stated: Item independence in Title Matching. What item k is
\* processed with (the lookup title, the uids compared, the title written and
\* the tags reconciled) is what its file and the record found hold, read as
\* into fresh variables: a field the document or the record omits is empty,
\* never a value left by an earlier item.
C18_ItemIndependence ==
  /\ (mode = "title" /\ pc \in {"tlookup", "texec"}) => dash = FileDash(jsons[i][1])
  /\ (mode = "title" /\ pc = "texec") => dash2 = Unmarshal(data, ZeroDash)

(***************************************************************************)
(* Both import strategies: the sidecar files.                              *)
(***************************************************************************)

\* the path of the item being processed
CurPath == IF mode = "uid" THEN jsonMap[cur].fn ELSE jsons[i][1]

\* C15: Sidecar snapshot. In both import strategies, once the sidecar step of
\* an item that updated a dashboard row from path p is done, p.was holds the
\* canonical form of the content the row had just before that update; a run
\* that came to its end has a sidecar for every path a row was updated from;
\* and a path no row was updated from (content, title and slug unchanged, a
\* change of tags only, a soft skip) has no sidecar.
C15_SidecarSnapshot ==
  /\ \A p \in Sidecars : SubSeq(p, 1, Len(p) - 1) \in rowBy
  /\ Cardinality(Sidecars) <= nRowUpd
  /\ pc \in {"bak", "tbak"} =>
       /\ CurPath \in rowBy
       /\ CurPath \o <<".was">> \in Sidecars
       /\ fs[CurPath \o <<".was">>] = PrettyPrintJSON(rowWas.data)
  /\ (mode \in {"uid", "title"} /\ pc = "done") =>
       \A p \in rowBy : p \o <<".was">> \in Sidecars

\* a row whose content was not in canonical form was updated with other
\* content, and the sidecar holds the canonical form of the old content
C15_Witness ==
  /\ pc \in {"bak", "tbak"} /\ nRowUpd = 1
  /\ rowWas.data.layout = "compact"
  /\ fs[CurPath \o <<".was">>] = PrettyPrintJSON(rowWas.data)
  /\ fs[CurPath \o <<".was">>] # rowWas.data
  /\ fs[CurPath \o <<".was">>] # PrettyPrintJSON(fs[CurPath])

(***************************************************************************)
(* exportJsons.                                                            *)
(***************************************************************************)

\* C16 as stated: Export completeness. After a run of exportJsons that came
\* to its end, every dashboard row has its file sqlite/<slug>.json, holding
\* the canonical form of that row's content; no row of the database was
\* modified and no backup file was written.
C16_ExportComplete ==
  (mode = "export" /\ pc = "done") =>
    /\ \A k \in DOMAIN db :
         /\ ExportPath(db[k].slug) \in DOMAIN fs
         /\ fs[ExportPath(db[k].slug)] = PrettyPrintJSON(db[k].data)
    /\ DbFile = db0 /\ backups = <<>>

(***************************************************************************)
(* updateTags: the value it returns.                                       *)
(***************************************************************************)

\* C17 as stated: Changed signal matches mutation. For every JSON tag list,
\* lists with repeated tags included, and every set of tag rows, updateTags
\* returns true if and only if it executed at least one insert or delete.
C17_ChangedIffMutated ==
  \A n \in 1..Len(tgLog) :
    tgLog[n].changed <=> (tgLog[n].ins \cup tgLog[n].del # {})

(***************************************************************************)
(* importJsonsByUID: the records it leaves alone.                          *)
(***************************************************************************)

\* the uids of the documents on the command line
InputUids == {FileUid(jsons[n][1]) : n \in {m \in DOMAIN jsons : WellFormed(fs[jsons[m][1]])}}

\* the dashboards whose uid, as the database held it at the start, is the
\* uid of no document on the command line
Unmatched ==
  {k \in DOMAIN db0.dashboard :
     Unmarshal(db0.dashboard[k].data, ZeroDash).UID \notin InputUids}

\* C19: Frame of Identifier Matching. At every point of a run of
\* importJsonsByUID, a record whose embedded uid is the uid of no input
\* document has the title, slug, content and tag rows it had at the start,
\* and every record has the id it had at the start.
C19_Frame ==
  mode = "uid" =>
    /\ DOMAIN db = DOMAIN db0.dashboard
    /\ \A k \in DOMAIN db : db[k].id = db0.dashboard[k].id
    /\ \A k \in Unmatched :
         db[k] = db0.dashboard[k] /\ tagTbl[k] = db0.dashboard_tag[k]

\* a run came to its end having changed the row and the tag rows of one
\* dashboard, with another dashboard, of a uid no document has, as it was
C19_Witness ==
  /\ mode = "uid" /\ pc = "done" /\ ~roundTrip
  /\ db[1] # db0.dashboard[1] /\ tagTbl[1] # db0.dashboard_tag[1]
  /\ 2 \in Unmatched
  /\ db[2] = db0.dashboard[2] /\ tagTbl[2] = db0.dashboard_tag[2]

====
